---- MODULE Spec2Model ----
(***************************************************************************)
(* Orchestrator (src/src/serve.py) and API client readiness prober         *)
(* (src/backend/api/__init__.py) of google-maps-scraper.                   *)
(*                                                                         *)
(* Threads: the main thread runs run_orchestrator; every accepted webhook  *)
(* request becomes a job of the ThreadPoolExecutor.  The backend is the    *)
(* environment: its health endpoint answers the n-th health request with   *)
(* the n-th entry of healthScript (the last entry repeats).                *)
(***************************************************************************)
EXTENDS Integers, Sequences, FiniteSets, TLC

\* ---------------------------------------------------------------- bounds
MaxScript == 5          \* longest scripted prefix of health answers, CLI mode
GatewayScript == 3      \* longest scripted prefix of health answers, webhook mode
MaxRequests == 1        \* webhook requests received while the gateway serves
PoolRequests == 6       \* webhook requests of the worker-pool specification
MaxSupervisorCalls == 4 \* calls of start_api_server / stop_api_server made in a row
CliScript == 1          \* longest scripted prefix of health answers, cli.py

\* ------------------------------------------------------ program constants
MAX_API_CHECK_RETRIES == 10     \* serve.py:18
InitialBackoff == 2             \* serve.py:43  backoff_interval = 2
StopAttempts == 5               \* api/__init__.py:66 stop_after_attempt(5)
WaitMin == 1                    \* api/__init__.py:66 wait_exponential(min=1
WaitMax == 10                   \* api/__init__.py:66 wait_exponential(max=10
WaitMultiplier == 1             \* tenacity default multiplier
ExpBase == 2                    \* tenacity default exp_base
MaxWorkers == 5                 \* serve.py:24 ThreadPoolExecutor(max_workers=5)

None == "None"
Main == 0      \* thread id of the main thread; pool jobs are 1..MaxRequests

\* answers of the health endpoint GET /api: connection refused, or a status
HealthAnswers == {"refused", "200", "503"}

RECURSIVE Pow(_, _)
Pow(b, e) == IF e = 0 THEN 1 ELSE b * Pow(b, e - 1)

Min2(a, b) == IF a < b THEN a ELSE b
Max2(a, b) == IF a > b THEN a ELSE b

\* faulty variant: the exponent counts the failed attempt itself (2, 4, 8, 10)
wait_exponential_from_attempt(attempt_number) ==
    Max2(Max2(0, WaitMin),
         Min2(WaitMultiplier * Pow(ExpBase, attempt_number), WaitMax))

\* tenacity wait_exponential.__call__ for the attempt that just failed:
\*   max(max(0, min), min(multiplier * exp_base ** (attempt_number - 1), max))
wait_exponential(attempt_number) ==
    Max2(Max2(0, WaitMin),
         Min2(WaitMultiplier * Pow(ExpBase, attempt_number - 1), WaitMax))

\* faulty variant: gives up two attempts early
stop_after_attempt_early(attempt_number) == attempt_number >= StopAttempts - 2

\* faulty variant: off by one, allows one attempt more
stop_after_attempt_late(attempt_number) == attempt_number > StopAttempts

\* tenacity stop_after_attempt.__call__: attempt_number >= max_attempt_number
stop_after_attempt(attempt_number) == attempt_number >= StopAttempts

\* all health scripts: non-empty sequences of at most MaxScript answers
Scripts(maxLen) == UNION {[1..n -> HealthAnswers] : n \in 1..maxLen}

\* the backend's answer to the n-th health request
ScriptAt(script, n) == IF n <= Len(script) THEN script[n] ELSE script[Len(script)]

\* ------------------------------------------------------------- payloads
Keys == {"queries", "country"}
QueryVals == {<<>>, <<"barbershop">>}

\* request.json of a webhook request: JSON null / no body, or an object
Payloads ==
    {[isNull |-> TRUE, keys |-> {}, queries |-> <<>>]} \cup
    {p \in [isNull : {FALSE}, keys : SUBSET Keys, queries : QueryVals] :
        "queries" \notin p.keys => p.queries = <<>>}

\* the bodies posted to /start-task
WebhookPayloads == {p \in Payloads : p.keys # Keys}

\* vars(args): argparse always supplies every key; --queries may be ''
CliPayloads == {p \in Payloads : ~p.isNull /\ p.keys = Keys}

\* serve.py:172 the default of --queries
DefaultCliPayload == [isNull |-> FALSE, keys |-> Keys, queries |-> <<"barbershop">>]

\* Python truthiness of request.json (serve.py:109 "not data")
Falsy(data) == data.isNull \/ data.keys = {}

\* serve.py:124 the condition under which validate_payload raises ValueError
QueriesMissing(payload) == "queries" \notin payload.keys \/ payload.queries = <<>>


\* --------------------------------------------------------- API client
\* status codes of a backend response (boundaries of the 4xx and 5xx ranges)
Statuses == {200, 400, 499, 500, 599}

TaskId == "t1"

\* bodies of a backend response: not JSON, a JSON array, or a JSON object
\* with or without "message", "id", "total_pages"
Bodies ==
    {[kind |-> "text",   message |-> None, id |-> None,   pages |-> 0],
     [kind |-> "list",   message |-> None, id |-> TaskId, pages |-> 0],
     [kind |-> "list",   message |-> None, id |-> None,   pages |-> 0],
     [kind |-> "object", message |-> None, id |-> TaskId, pages |-> 1],
     [kind |-> "object", message |-> None, id |-> TaskId, pages |-> 2],
     [kind |-> "object", message |-> None, id |-> None,   pages |-> 0],
     [kind |-> "object", message |-> "",   id |-> None,   pages |-> 0],
     [kind |-> "object", message |-> "bad input", id |-> None, pages |-> 0]}

NoBody == [kind |-> "none", message |-> None, id |-> None, pages |-> 0]

Refused == [status |-> 0, body |-> NoBody]

Responses == [status : Statuses, body : Bodies]

\* what the backend can do with one request: answer, or refuse the connection
Answers == Responses \cup {Refused}

\* requests.Response.raise_for_status: HTTPError for 400 <= status < 600
HttpError(status) == IF status >= 400 /\ status < 600 THEN "HTTPError" ELSE None

\* faulty variant: the body of a 5xx response is inspected like that of a 4xx
raise_for_status_parse_5xx(response) ==
    IF response.status >= 400 /\ response.status < 600
    THEN CASE response.body.kind = "text" ->
                  [exc |-> "JSONDecodeError", message |-> None, parsed |-> TRUE]
           [] response.body.kind = "list" ->
                  [exc |-> "AttributeError", message |-> None, parsed |-> TRUE]
           [] OTHER ->
                  IF response.body.message \notin {None, ""}
                  THEN [exc |-> "ApiException", message |-> response.body.message,
                        parsed |-> TRUE]
                  ELSE [exc |-> HttpError(response.status), message |-> None,
                        parsed |-> TRUE]
    ELSE [exc |-> None, message |-> None, parsed |-> FALSE]

\* api/__init__.py:53-63 Api._raise_for_status: the exception it raises (None
\* when it returns), the message carried, and whether response.json() ran
raise_for_status(response) ==
    IF response.status >= 400 /\ response.status < 500
    THEN CASE response.body.kind = "text" ->
                  \* response.json() fails on a body that is not JSON
                  [exc |-> "JSONDecodeError", message |-> None, parsed |-> TRUE]
           [] response.body.kind = "list" ->
                  \* data.get on a list
                  [exc |-> "AttributeError", message |-> None, parsed |-> TRUE]
           [] OTHER ->
                  IF response.body.message \notin {None, ""}
                  THEN [exc |-> "ApiException", message |-> response.body.message,
                        parsed |-> TRUE]
                  ELSE [exc |-> HttpError(response.status), message |-> None,
                        parsed |-> TRUE]
    ELSE IF response.status >= 500 /\ response.status < 600
         THEN [exc |-> HttpError(response.status), message |-> None, parsed |-> FALSE]
         ELSE [exc |-> None, message |-> None, parsed |-> FALSE]

\* the task operations of the client (everything but is_api_running)
JsonOps == {"create_task", "create_tasks", "get_tasks", "get_task",
            "get_task_results", "abort_task", "delete_task",
            "delete_tasks", "abort_tasks"}
PagedOps == {"get_tasks", "get_task_results"}
TaskOps == JsonOps \cup {"download_task_results"}

\* arguments of get_task_results; Unset: the caller did not pass the argument
Unset == "unset"
FiltersVals == {"{}", "{city}"}
SortVals == {"", "best"}
ViewVals == {"", "overview"}
PageVals == {"0", "2"}          \* the integers 0 and 2
PerPageVals == {"0", "5"}       \* the integers 0 and 5
DefaultPage == "1"              \* api/__init__.py:168 page=1
ResultArgs == [filters : {Unset} \cup FiltersVals, sort : {Unset} \cup SortVals,
               view : {Unset} \cup ViewVals, page : {Unset} \cup PageVals,
               per_page : {Unset} \cup PerPageVals]
NoArgs == [filters |-> Unset, sort |-> Unset, view |-> Unset, page |-> Unset,
           per_page |-> Unset]

\* Python truthiness of an argument value
Truthy(v) == v \notin {None, "", "{}", "0"}

\* api/__init__.py:168 the parameter defaults of get_task_results
Bound(args) ==
    [filters  |-> IF args.filters = Unset THEN None ELSE args.filters,
     sort     |-> IF args.sort = Unset THEN None ELSE args.sort,
     view     |-> IF args.view = Unset THEN None ELSE args.view,
     page     |-> IF args.page = Unset THEN DefaultPage ELSE args.page,
     per_page |-> IF args.per_page = Unset THEN None ELSE args.per_page]

ResultFields == {"filters", "sort", "view", "page", "per_page"}

\* api/__init__.py:182-192 the JSON body of the results request, as a
\* function from the fields sent to their values
results_payload(args) ==
    LET b == Bound(args)
    IN [f \in {g \in ResultFields : Truthy(b[g])} |-> b[f]]

EmptyPayload == [f \in {} |-> None]

\* api/__init__.py:36, 146, 200 the diagnostic file of an operation
ResponseFile(op, body, page) ==
    IF op \in PagedOps /\ body.pages > 1 THEN <<op, page>> ELSE <<op, "">>

NoWrite == <<>>

\* faulty variant: a refused connection is tried a second time
ClientCall_retry_refused(op, args, answer, createFiles) ==
    LET payload == IF op = "get_task_results" THEN results_payload(args) ELSE EmptyPayload
        page == Bound(args).page
        base == [op |-> op, args |-> args, answer |-> answer, payload |-> payload,
                 requests |-> 1, exc |-> None, message |-> None, parsed |-> FALSE,
                 returned |-> NoBody, write |-> NoWrite]
        rs == raise_for_status(answer)
    IN IF answer = Refused
       THEN [base EXCEPT !.exc = "ConnectionError", !.requests = 2]
       ELSE IF rs.exc # None
       THEN [base EXCEPT !.exc = rs.exc, !.message = rs.message, !.parsed = rs.parsed]
       ELSE IF op = "download_task_results"
       THEN \* response.content, not parsed
            [base EXCEPT !.returned = answer.body,
                         !.write = IF createFiles THEN <<<<op, "">>, answer.body>> ELSE NoWrite]
       ELSE IF answer.body.kind = "text"
       THEN [base EXCEPT !.exc = "JSONDecodeError", !.parsed = TRUE]
       ELSE IF createFiles /\ op \in PagedOps /\ answer.body.kind = "list"
       THEN \* response_data["total_pages"] on a list
            [base EXCEPT !.exc = "TypeError", !.parsed = TRUE]
       ELSE IF createFiles /\ op \in PagedOps /\ answer.body.pages = 0
       THEN [base EXCEPT !.exc = "KeyError", !.parsed = TRUE]
       ELSE [base EXCEPT !.parsed = TRUE, !.returned = answer.body,
                         !.write = IF createFiles
                                   THEN <<ResponseFile(op, answer.body, page), answer.body>>
                                   ELSE NoWrite]

\* faulty variant: the response is written whatever the flag says
ClientCall_writes_unflagged(op, args, answer, createFiles) ==
    LET payload == IF op = "get_task_results" THEN results_payload(args) ELSE EmptyPayload
        page == Bound(args).page
        base == [op |-> op, args |-> args, answer |-> answer, payload |-> payload,
                 requests |-> 1, exc |-> None, message |-> None, parsed |-> FALSE,
                 returned |-> NoBody, write |-> NoWrite]
        rs == raise_for_status(answer)
    IN IF answer = Refused
       THEN [base EXCEPT !.exc = "ConnectionError"]
       ELSE IF rs.exc # None
       THEN [base EXCEPT !.exc = rs.exc, !.message = rs.message, !.parsed = rs.parsed]
       ELSE IF op = "download_task_results"
       THEN \* response.content, not parsed
            [base EXCEPT !.returned = answer.body,
                         !.write = IF TRUE THEN <<<<op, "">>, answer.body>> ELSE NoWrite]
       ELSE IF answer.body.kind = "text"
       THEN [base EXCEPT !.exc = "JSONDecodeError", !.parsed = TRUE]
       ELSE IF createFiles /\ op \in PagedOps /\ answer.body.kind = "list"
       THEN \* response_data["total_pages"] on a list
            [base EXCEPT !.exc = "TypeError", !.parsed = TRUE]
       ELSE IF createFiles /\ op \in PagedOps /\ answer.body.pages = 0
       THEN [base EXCEPT !.exc = "KeyError", !.parsed = TRUE]
       ELSE [base EXCEPT !.parsed = TRUE, !.returned = answer.body,
                         !.write = IF TRUE
                                   THEN <<ResponseFile(op, answer.body, page), answer.body>>
                                   ELSE NoWrite]

\* api/__init__.py:82-303 one task operation: exactly one request, then
\* _raise_for_status, response.json(), and the diagnostic file
ClientCall(op, args, answer, createFiles) ==
    LET payload == IF op = "get_task_results" THEN results_payload(args) ELSE EmptyPayload
        page == Bound(args).page
        base == [op |-> op, args |-> args, answer |-> answer, payload |-> payload,
                 requests |-> 1, exc |-> None, message |-> None, parsed |-> FALSE,
                 returned |-> NoBody, write |-> NoWrite]
        rs == raise_for_status(answer)
    IN IF answer = Refused
       THEN [base EXCEPT !.exc = "ConnectionError"]
       ELSE IF rs.exc # None
       THEN [base EXCEPT !.exc = rs.exc, !.message = rs.message, !.parsed = rs.parsed]
       ELSE IF op = "download_task_results"
       THEN \* response.content, not parsed
            [base EXCEPT !.returned = answer.body,
                         !.write = IF createFiles THEN <<<<op, "">>, answer.body>> ELSE NoWrite]
       ELSE IF answer.body.kind = "text"
       THEN [base EXCEPT !.exc = "JSONDecodeError", !.parsed = TRUE]
       ELSE IF createFiles /\ op \in PagedOps /\ answer.body.kind = "list"
       THEN \* response_data["total_pages"] on a list
            [base EXCEPT !.exc = "TypeError", !.parsed = TRUE]
       ELSE IF createFiles /\ op \in PagedOps /\ answer.body.pages = 0
       THEN [base EXCEPT !.exc = "KeyError", !.parsed = TRUE]
       ELSE [base EXCEPT !.parsed = TRUE, !.returned = answer.body,
                         !.write = IF createFiles
                                   THEN <<ResponseFile(op, answer.body, page), answer.body>>
                                   ELSE NoWrite]

\* the diagnostic files after a call
FilesAfter(fs, call) ==
    IF call.write = NoWrite THEN fs
    ELSE [p \in DOMAIN fs \cup {call.write[1]} |->
              IF p = call.write[1] THEN call.write[2] ELSE fs[p]]

NoFiles == [p \in {} |-> NoBody]

\* no call made yet
NoCall == [op |-> None, args |-> NoArgs, answer |-> Refused, payload |-> EmptyPayload,
           requests |-> 0, exc |-> None, message |-> None, parsed |-> FALSE,
           returned |-> NoBody, write |-> NoWrite]

\* serve.py:19 no child spawned, API_SERVER_PROCESS = None (handle 0)
NoSupervisor == [children |-> <<>>, handle |-> 0, log |-> <<>>]

\* cli.py:85 the scraped_data table holds no row of this run
NoRows == <<>>

VARIABLES
    healthScript,       \* environment: scripted answers of GET /api
    healthCount,        \* number of health requests the backend has seen
    child,              \* the backend child process: "none", "running", "exited"
    spawned,            \* outcome of subprocess.Popen: None, "ok", "OSError"
    webhook,            \* args.webhook
    CLI_PAYLOAD,        \* serve.py:20 / 188
    API_SERVER_PROCESS, \* serve.py:19
    pc,                 \* position of the main thread
    attempt,            \* serve.py:44 loop variable
    backoff_interval,   \* serve.py:43
    sleeps,             \* time.sleep calls of start_api_server, in order
    pending,            \* exception propagating in the main thread, or None
    startResult,        \* what start_api_server gave: None, "True", "False", "raised"
    atexitHandlers,     \* number of stop_api_server registrations with atexit
    stopLog,            \* one record per stop_api_server call
    tn,                 \* tenacity retry state of the running is_api_running call, per thread
    mainCalls,          \* completed is_api_running calls of the main thread
    task,               \* per thread: progress of run_cli_task
    requests,           \* webhook requests handled by start_task, in order
    create_response_files, \* api/__init__.py:28 flag of the Api object
    files,              \* output/responses: diagnostic file -> content
    clientCall,         \* the last task operation called on a standalone client
    supervisor,         \* start/stop_api_server called on their own: children, handle, log
    sink                \* rows of scraped_data inserted by cli.py insert_data

vars == <<healthScript, healthCount, child, spawned, webhook,
          CLI_PAYLOAD, API_SERVER_PROCESS, pc, attempt, backoff_interval,
          sleeps, pending, startResult, atexitHandlers, stopLog, tn, mainCalls,
          task, requests, create_response_files, files, clientCall,
          supervisor, sink>>

\* never changed by the orchestrator
envVars == <<healthScript, webhook, CLI_PAYLOAD, create_response_files, clientCall,
            supervisor, sink>>

\* every variable of the orchestrator and its pool
orchVars == <<healthScript, healthCount, child, spawned, webhook,
              CLI_PAYLOAD, API_SERVER_PROCESS, pc, attempt, backoff_interval,
              sleeps, pending, startResult, atexitHandlers, stopLog, tn, mainCalls,
              task, requests>>

\* the threads: the main thread and one per work item the pool can hold
Threads == DOMAIN task
Jobs == Threads \ {Main}
ThreadIds(n) == {Main} \cup 1..n

IdleTask == [pc |-> "idle", sent |-> 0, result |-> None, calls |-> <<>>, id |-> None]

FreshRetryState == [attempt_number |-> 1, waits |-> <<>>]

\* tenacity raises RetryError (reraise defaults to False) once stop says so
RetryExhausted == "RetryError"

\* faulty variant: a non-200 status is retried like a refused connection
AttemptStatus_retry_on_status(attempt_number, answer) ==
    IF answer = "200" THEN "True"
    ELSE IF stop_after_attempt(attempt_number) THEN RetryExhausted ELSE "retry"

\* api/__init__.py:66-80: one attempt of is_api_running under @retry.
\* "retry": tenacity sleeps and calls again; "True"/"False": the call
\* returned; otherwise the name of the exception leaving the call.
AttemptStatus(attempt_number, answer) ==
    IF answer = "refused"
    THEN IF stop_after_attempt(attempt_number) THEN RetryExhausted ELSE "retry"
    ELSE IF answer = "200" THEN "True" ELSE "False"

NextRetryState(rs) ==
    [attempt_number |-> rs.attempt_number + 1,
     waits |-> Append(rs.waits, wait_exponential(rs.attempt_number))]

CallRecord(rs, status, site) ==
    [site |-> site, status |-> status, requests |-> rs.attempt_number,
     waits |-> rs.waits, first |-> healthCount + 2 - rs.attempt_number]

\* serve.py:16-24 and the first lines of run_orchestrator: nothing started
NotStarted(n) ==
    /\ healthCount = 0
    /\ child = "none"
    /\ spawned = None
    /\ API_SERVER_PROCESS = None
    /\ pc = "start"
    /\ attempt = 0
    /\ backoff_interval = InitialBackoff
    /\ sleeps = <<>>
    /\ pending = None
    /\ startResult = None
    /\ atexitHandlers = 0
    /\ stopLog = <<>>
    /\ tn = [t \in ThreadIds(n) |-> FreshRetryState]
    /\ mainCalls = <<>>
    /\ task = [t \in ThreadIds(n) |-> IdleTask]
    /\ requests = <<>>

Init ==
    /\ webhook \in BOOLEAN
    /\ healthScript \in Scripts(IF webhook THEN GatewayScript ELSE MaxScript)
    /\ CLI_PAYLOAD \in (IF webhook THEN {DefaultCliPayload} ELSE CliPayloads)
    /\ create_response_files = TRUE
    /\ files = NoFiles
    /\ clientCall = NoCall
    /\ supervisor = NoSupervisor
    /\ sink = NoRows
    /\ NotStarted(MaxRequests)

\* faulty variant: the OSError handler does not return, the readiness check goes on
Spawn_no_return(spawnFails) ==
    /\ pc = "start"
    /\ spawned' = IF spawnFails THEN "OSError" ELSE "ok"
    /\ child' = IF spawnFails THEN child ELSE "running"
    /\ API_SERVER_PROCESS' = IF spawnFails THEN API_SERVER_PROCESS ELSE "proc"
    /\ pc' = "ctor40"
    /\ UNCHANGED <<envVars, files, healthCount, attempt, backoff_interval, sleeps,
                   pending, startResult, atexitHandlers, stopLog, tn, mainCalls,
                   task, requests>>

\* serve.py:27-40 start_api_server up to the construction of Api()
Spawn(spawnFails) ==
    /\ pc = "start"
    /\ IF spawnFails
       THEN \* subprocess.Popen raised OSError
            /\ spawned' = "OSError"
            /\ startResult' = "False"
            /\ pc' = "finally"
            /\ UNCHANGED <<child, API_SERVER_PROCESS>>
       ELSE /\ spawned' = "ok"
            /\ child' = "running"
            /\ API_SERVER_PROCESS' = "proc"
            /\ pc' = "ctor40"
            /\ UNCHANGED startResult
    /\ UNCHANGED <<envVars, files, healthCount, attempt, backoff_interval, sleeps,
                   pending, atexitHandlers, stopLog, tn, mainCalls, task, requests>>

\* serve.py:40 Api() -> api/__init__.py:31 is_api_running, one health request
ProbeCtor40 ==
    /\ pc = "ctor40"
    /\ LET answer == ScriptAt(healthScript, healthCount + 1)
           rs == tn[Main]
           status == AttemptStatus(rs.attempt_number, answer)
       IN /\ healthCount' = healthCount + 1
          /\ IF status = "retry"
             THEN /\ tn' = [tn EXCEPT ![Main] = NextRetryState(rs)]
                  /\ UNCHANGED <<pc, pending, startResult, mainCalls>>
             ELSE /\ tn' = [tn EXCEPT ![Main] = FreshRetryState]
                  /\ mainCalls' = Append(mainCalls, CallRecord(rs, status, "ctor40"))
                  /\ IF status = "True"
                     THEN /\ pc' = "loop47"
                          /\ UNCHANGED <<pending, startResult>>
                     ELSE \* api/__init__.py:32 raises ApiException on False;
                          \* any exception leaves start_api_server (no try here)
                          /\ pending' = IF status = "False" THEN "ApiException" ELSE status
                          /\ startResult' = "raised"
                          /\ pc' = "finally"
    /\ UNCHANGED <<envVars, files, spawned, child, API_SERVER_PROCESS, attempt,
                   backoff_interval, sleeps, atexitHandlers, stopLog, task, requests>>

\* serve.py:44-57 one health request of the readiness loop
ProbeLoop47 ==
    /\ pc = "loop47"
    /\ LET answer == ScriptAt(healthScript, healthCount + 1)
           rs == tn[Main]
           status == AttemptStatus(rs.attempt_number, answer)
       IN /\ healthCount' = healthCount + 1
          /\ IF status = "retry"
             THEN /\ tn' = [tn EXCEPT ![Main] = NextRetryState(rs)]
                  /\ UNCHANGED <<pc, pending, startResult, mainCalls, attempt,
                                 backoff_interval, sleeps>>
             ELSE /\ tn' = [tn EXCEPT ![Main] = FreshRetryState]
                  /\ mainCalls' = Append(mainCalls, CallRecord(rs, status, "loop47"))
                  /\ CASE status = "True" ->
                            /\ startResult' = "True"
                            /\ pc' = "dispatch"
                            /\ UNCHANGED <<pending, attempt, backoff_interval, sleeps>>
                       [] status = "False" ->
                            \* falls through to the next iteration, no sleep
                            /\ attempt' = attempt + 1
                            /\ IF attempt + 1 >= MAX_API_CHECK_RETRIES
                               THEN startResult' = "False" /\ pc' = "finally"
                               ELSE UNCHANGED <<startResult, pc>>
                            /\ UNCHANGED <<pending, backoff_interval, sleeps>>
                       [] status = "ApiException" ->
                            \* serve.py:50-53
                            /\ sleeps' = Append(sleeps, backoff_interval)
                            /\ backoff_interval' = backoff_interval * 2
                            /\ attempt' = attempt + 1
                            /\ IF attempt + 1 >= MAX_API_CHECK_RETRIES
                               THEN startResult' = "False" /\ pc' = "finally"
                               ELSE UNCHANGED <<startResult, pc>>
                            /\ UNCHANGED pending
                       [] OTHER ->
                            \* any other exception is not caught by line 50
                            /\ pending' = status
                            /\ startResult' = "raised"
                            /\ pc' = "finally"
                            /\ UNCHANGED <<attempt, backoff_interval, sleeps>>
    /\ UNCHANGED <<envVars, files, spawned, child, API_SERVER_PROCESS, atexitHandlers, stopLog,
                   task, requests>>

\* serve.py:132-158 run_orchestrator after start_api_server returned True
Dispatch ==
    /\ pc = "dispatch"
    /\ IF webhook
       THEN \* serve.py:137 run_webhook_server blocks in app.run
            /\ pc' = "serving"
            /\ UNCHANGED <<pending, task>>
       ELSE IF QueriesMissing(CLI_PAYLOAD)
            THEN \* serve.py:140 validate_payload raises ValueError
                 /\ pending' = "ValueError"
                 /\ pc' = "finally"
                 /\ UNCHANGED task
            ELSE \* serve.py:158 run_cli_task(data)
                 /\ pc' = "cli_task"
                 /\ task' = [task EXCEPT ![Main] = [IdleTask EXCEPT !.pc = "ctor72"]]
                 /\ UNCHANGED pending
    /\ UNCHANGED <<envVars, files, spawned, healthCount, child, API_SERVER_PROCESS, attempt,
                   backoff_interval, sleeps, startResult, atexitHandlers,
                   stopLog, tn, mainCalls, requests>>

\* what the main thread does when its run_cli_task call is over
\* (serve.py:158-159): an exception of Api() propagates, a result is dropped
MainAfterTask(t, result) ==
    IF t = Main
    THEN /\ pc' = "finally"
         /\ pending' = IF result \in {"ok", "error"} THEN None ELSE result
    ELSE UNCHANGED <<pc, pending>>

\* faulty variant: the constructor does not raise when the check reports not running
RunCtor72_keeps_client(t) ==
    /\ task[t].pc = "ctor72"
    /\ t = Main => pc = "cli_task"
    /\ LET answer == ScriptAt(healthScript, healthCount + 1)
           rs == tn[t]
           status == AttemptStatus(rs.attempt_number, answer)
           sent == task[t].sent + 1
       IN /\ healthCount' = healthCount + 1
          /\ IF status = "retry"
             THEN /\ tn' = [tn EXCEPT ![t] = NextRetryState(rs)]
                  /\ task' = [task EXCEPT ![t].sent = sent]
                  /\ UNCHANGED <<pc, pending, mainCalls>>
             ELSE /\ tn' = [tn EXCEPT ![t] = FreshRetryState]
                  /\ mainCalls' = IF t = Main
                                  THEN Append(mainCalls, CallRecord(rs, status, "ctor72"))
                                  ELSE mainCalls
                  /\ IF status \in {"True", "False"}
                     THEN /\ task' = [task EXCEPT ![t].pc = "create", ![t].sent = sent]
                          /\ UNCHANGED <<pc, pending>>
                     ELSE LET exc == IF status = "False" THEN "ApiException" ELSE status
                          IN /\ task' = [task EXCEPT ![t].pc = "done", ![t].sent = sent,
                                                      ![t].result = exc]
                             /\ MainAfterTask(t, exc)
    /\ UNCHANGED <<envVars, files, spawned, child, API_SERVER_PROCESS, attempt, backoff_interval,
                   sleeps, startResult, atexitHandlers, stopLog, requests>>

\* serve.py:72 Api() inside run_cli_task, one health request.  The
\* constructor is outside the try block: its exception leaves run_cli_task.
RunCtor72(t) ==
    /\ task[t].pc = "ctor72"
    /\ t = Main => pc = "cli_task"
    /\ LET answer == ScriptAt(healthScript, healthCount + 1)
           rs == tn[t]
           status == AttemptStatus(rs.attempt_number, answer)
           sent == task[t].sent + 1
       IN /\ healthCount' = healthCount + 1
          /\ IF status = "retry"
             THEN /\ tn' = [tn EXCEPT ![t] = NextRetryState(rs)]
                  /\ task' = [task EXCEPT ![t].sent = sent]
                  /\ UNCHANGED <<pc, pending, mainCalls>>
             ELSE /\ tn' = [tn EXCEPT ![t] = FreshRetryState]
                  /\ mainCalls' = IF t = Main
                                  THEN Append(mainCalls, CallRecord(rs, status, "ctor72"))
                                  ELSE mainCalls
                  /\ IF status = "True"
                     THEN /\ task' = [task EXCEPT ![t].pc = "create", ![t].sent = sent]
                          /\ UNCHANGED <<pc, pending>>
                     ELSE LET exc == IF status = "False" THEN "ApiException" ELSE status
                          IN /\ task' = [task EXCEPT ![t].pc = "done", ![t].sent = sent,
                                                      ![t].result = exc]
                             /\ MainAfterTask(t, exc)
    /\ UNCHANGED <<envVars, files, spawned, child, API_SERVER_PROCESS, attempt, backoff_interval,
                   sleeps, startResult, atexitHandlers, stopLog, requests>>

NextTaskPc(p) == CASE p = "create" -> "get" [] p = "get" -> "results" [] p = "results" -> "done"

\* serve.py:76, 80, 83 the client operation run_cli_task calls at a position
OpAt(p) == CASE p = "create" -> "create_task" [] p = "get" -> "get_task"
             [] p = "results" -> "get_task_results"

\* serve.py:77, 80, 83 the task id run_cli_task reads from response data:
\* task_list[0] of a list only after create_task, then task['id']
IdOf(p, body) ==
    IF p = "create" \/ body.kind = "object" THEN body.id ELSE None

\* the answers the backend gives in the orchestrator's specifications: a
\* refused connection, the task as an object or in a list, a 400 with a
\* message, a 500 with a text body
OrchBodies == {b \in Bodies : b.pages # 2 /\ b.message # ""}
OrchAnswers ==
    {Refused} \cup
    {r \in Responses :
        /\ r.body \in OrchBodies
        /\ \/ r.status = 200 /\ r.body.id = TaskId
           \/ r.status = 400 /\ r.body.message # None
           \/ r.status = 500 /\ r.body.kind = "text"}

\* the answers explored while the gateway serves: the task as an object
GatewayAnswers == {r \in OrchAnswers : r.body.kind # "list"}

\* serve.py:74-94 one of create_task, get_task, get_task_results: a single
\* request; every failure is caught and turned into {"error": ...}
TaskCall(t, answer) ==
    /\ task[t].pc \in {"create", "get", "results"}
    /\ t = Main => pc = "cli_task"
    /\ LET p == task[t].pc
           call == ClientCall(OpAt(p), NoArgs, answer, create_response_files)
           id == IF call.exc = None THEN IdOf(p, call.returned) ELSE None
           failed == call.exc # None \/ (p # "results" /\ id = None)
           np == IF failed THEN "done" ELSE NextTaskPc(p)
           result == IF failed THEN "error" ELSE IF np = "done" THEN "ok" ELSE None
       IN /\ task' = [task EXCEPT ![t] = [pc |-> np, sent |-> task[t].sent + call.requests,
                                          result |-> result,
                                          calls |-> Append(task[t].calls, OpAt(p)),
                                          id |-> IF p = "results" THEN task[t].id ELSE id]]
          /\ files' = FilesAfter(files, call)
          /\ IF np = "done" THEN MainAfterTask(t, result) ELSE UNCHANGED <<pc, pending>>
    /\ UNCHANGED <<envVars, spawned, healthCount, child, API_SERVER_PROCESS, attempt,
                   backoff_interval, sleeps, startResult, atexitHandlers,
                   stopLog, tn, mainCalls, requests>>

\* ------------------------------------------------------ webhook gateway
Executing(j) == task[j].pc \in {"ctor72", "create", "get", "results"}

\* faulty variant: the handler enters run_cli_task itself instead of submitting it
start_task_runs_task(data) ==
    /\ pc = "serving"
    /\ Len(requests) + 1 \in Jobs
    /\ LET j == Len(requests) + 1
       IN IF Falsy(data)
          THEN /\ requests' = Append(requests, [payload |-> data, status |-> 400,
                                                submitted |-> FALSE])
               /\ UNCHANGED task
          ELSE \* EXECUTOR.submit(async_task, data)
               /\ requests' = Append(requests, [payload |-> data, status |-> 200,
                                                submitted |-> TRUE])
               /\ task' = [task EXCEPT ![j] = [IdleTask EXCEPT !.pc = "ctor72"]]
    /\ UNCHANGED <<envVars, files, spawned, healthCount, child, API_SERVER_PROCESS, pc, attempt,
                   backoff_interval, sleeps, pending, startResult,
                   atexitHandlers, stopLog, tn, mainCalls>>

\* serve.py:105-114 start_task: the whole handler for one POST /start-task
start_task(data) ==
    /\ pc = "serving"
    /\ Len(requests) + 1 \in Jobs
    /\ LET j == Len(requests) + 1
       IN IF Falsy(data)
          THEN /\ requests' = Append(requests, [payload |-> data, status |-> 400,
                                                submitted |-> FALSE])
               /\ UNCHANGED task
          ELSE \* EXECUTOR.submit(async_task, data)
               /\ requests' = Append(requests, [payload |-> data, status |-> 200,
                                                submitted |-> TRUE])
               /\ task' = [task EXCEPT ![j] = [IdleTask EXCEPT !.pc = "queued"]]
    /\ UNCHANGED <<envVars, files, spawned, healthCount, child, API_SERVER_PROCESS, pc, attempt,
                   backoff_interval, sleeps, pending, startResult,
                   atexitHandlers, stopLog, tn, mainCalls>>

\* faulty variant: a thread is created for every queued work item
JobStart_no_cap(j) ==
    /\ task[j].pc = "queued"
    /\ \A i \in Jobs : i < j => task[i].pc # "queued"
    /\ task' = [task EXCEPT ![j].pc = "ctor72"]
    /\ UNCHANGED <<envVars, files, spawned, healthCount, child, API_SERVER_PROCESS, pc, attempt,
                   backoff_interval, sleeps, pending, startResult,
                   atexitHandlers, stopLog, tn, mainCalls, requests>>

\* faulty variant: a work item submitted while all workers are busy is never taken
JobStart_drops_overflow(j) ==
    /\ task[j].pc = "queued"
    /\ j <= MaxWorkers
    /\ \A i \in Jobs : i < j => task[i].pc # "queued"
    /\ Cardinality({i \in Jobs : Executing(i)}) < MaxWorkers
    /\ task' = [task EXCEPT ![j].pc = "ctor72"]
    /\ UNCHANGED <<envVars, files, spawned, healthCount, child, API_SERVER_PROCESS, pc, attempt,
                   backoff_interval, sleeps, pending, startResult,
                   atexitHandlers, stopLog, tn, mainCalls, requests>>

\* serve.py:24, 97-99: a pool thread takes the oldest queued work item and
\* enters async_task -> run_cli_task; at most MaxWorkers threads exist
JobStart(j) ==
    /\ task[j].pc = "queued"
    /\ \A i \in Jobs : i < j => task[i].pc # "queued"
    /\ Cardinality({i \in Jobs : Executing(i)}) < MaxWorkers
    /\ task' = [task EXCEPT ![j].pc = "ctor72"]
    /\ UNCHANGED <<envVars, files, spawned, healthCount, child, API_SERVER_PROCESS, pc, attempt,
                   backoff_interval, sleeps, pending, startResult,
                   atexitHandlers, stopLog, tn, mainCalls, requests>>

\* serve.py:120 app.run returns (werkzeug swallows the KeyboardInterrupt of Ctrl-C)
ServerReturn ==
    /\ pc = "serving"
    /\ pc' = "finally"
    /\ UNCHANGED <<envVars, files, spawned, healthCount, child, API_SERVER_PROCESS, attempt,
                   backoff_interval, sleeps, pending, startResult,
                   atexitHandlers, stopLog, tn, mainCalls, task, requests>>

\* an exception raised in the main thread inside the try block of
\* run_orchestrator (serve.py:130-158), e.g. KeyboardInterrupt
Interrupt ==
    /\ pc \in {"ctor40", "loop47", "dispatch", "serving", "cli_task"}
    /\ pending' = "KeyboardInterrupt"
    /\ pc' = "finally"
    /\ startResult' = IF pc \in {"ctor40", "loop47"} THEN "raised" ELSE startResult
    /\ tn' = [tn EXCEPT ![Main] = FreshRetryState]
    /\ task' = [task EXCEPT ![Main] = IF pc = "cli_task"
                                      THEN [task[Main] EXCEPT !.pc = "done",
                                                              !.result = "KeyboardInterrupt"]
                                      ELSE task[Main]]
    /\ UNCHANGED <<envVars, files, spawned, healthCount, child, API_SERVER_PROCESS, attempt,
                   backoff_interval, sleeps, atexitHandlers, stopLog,
                   mainCalls, requests>>

\* the backend child process ends by itself
ChildExits ==
    /\ child = "running"
    /\ child' = "exited"
    /\ UNCHANGED <<envVars, files, spawned, healthCount, API_SERVER_PROCESS, pc, attempt,
                   backoff_interval, sleeps, pending, startResult,
                   atexitHandlers, stopLog, tn, mainCalls, task, requests>>

\* ------------------------------------------------------ stop_api_server
\* serve.py:66 Popen.wait(timeout=10) after terminate(): TimeoutExpired
\* when a running child does not exit in time
WaitTimesOut(handle, ch, obeys) == handle # None /\ ch = "running" /\ ~obeys

\* serve.py:60-67 the child's state after stop_api_server
ChildAfterStop(handle, ch, obeys) ==
    IF handle # None /\ ch = "running" /\ obeys THEN "exited" ELSE ch

\* childObeys: the child exits within 10 s of the terminate signal
StopRecord(site, childObeys) ==
    [site |-> site, handle |-> API_SERVER_PROCESS, before |-> child,
     raised |-> WaitTimesOut(API_SERVER_PROCESS, child, childObeys),
     after |-> ChildAfterStop(API_SERVER_PROCESS, child, childObeys)]

\* serve.py:159-164 the finally block of run_orchestrator
Finally(childObeys) ==
    /\ pc = "finally"
    /\ LET rec == StopRecord("finally", childObeys)
       IN /\ stopLog' = Append(stopLog, rec)
          /\ child' = rec.after
          /\ IF rec.raised
             THEN \* TimeoutExpired leaves the finally block before line 164
                  /\ pending' = "TimeoutExpired"
                  /\ UNCHANGED atexitHandlers
             ELSE /\ atexitHandlers' = atexitHandlers + 1
                  /\ UNCHANGED pending
    /\ pc' = "exit"
    /\ UNCHANGED <<envVars, files, spawned, healthCount, API_SERVER_PROCESS, attempt,
                   backoff_interval, sleeps, startResult, tn, mainCalls,
                   task, requests>>

\* interpreter shutdown after run_orchestrator (serve.py:191): the pool's
\* threads are joined, then the atexit handlers run (serve.py:164)
AtExit(childObeys) ==
    /\ pc = "exit"
    /\ \A j \in Jobs : task[j].pc \in {"idle", "done"}
    /\ IF atexitHandlers > 0
       THEN LET rec == StopRecord("atexit", childObeys)
            IN /\ stopLog' = Append(stopLog, rec)
               /\ child' = rec.after
       ELSE UNCHANGED <<stopLog, child>>
    /\ pc' = "gone"
    /\ UNCHANGED <<envVars, files, spawned, healthCount, API_SERVER_PROCESS, attempt,
                   backoff_interval, sleeps, pending, startResult,
                   atexitHandlers, tn, mainCalls, task, requests>>

Next ==
    \/ \E spawnFails \in BOOLEAN : Spawn(spawnFails)
    \/ ProbeCtor40
    \/ ProbeLoop47
    \/ Dispatch
    \/ \E t \in Threads : RunCtor72(t)
    \/ \E t \in Threads, answer \in (IF webhook THEN GatewayAnswers ELSE OrchAnswers) :
           TaskCall(t, answer)
    \/ \E data \in WebhookPayloads : start_task(data)
    \/ \E j \in Jobs : JobStart(j)
    \/ ServerReturn
    \/ Interrupt
    \/ ChildExits
    \/ \E childObeys \in BOOLEAN : Finally(childObeys)
    \/ \E childObeys \in BOOLEAN : AtExit(childObeys)

Spec == Init /\ [][Next]_vars

\* ------------------------------------------- the client on its own
\* the inputs of one task operation: get_task_results takes the optional
\* arguments, every other operation is called with its defaults
ArgsOf(op) == IF op = "get_task_results" THEN ResultArgs ELSE {NoArgs}

\* what output/responses holds when a call is made: nothing, or the file
\* an earlier get_task left there
EarlierTask == [kind |-> "object", message |-> None, id |-> TaskId, pages |-> 1]
PriorFiles == {NoFiles,
               FilesAfter(NoFiles, ClientCall("get_task", NoArgs,
                                              [status |-> 200, body |-> EarlierTask],
                                              TRUE))}

\* an Api object (api/__init__.py:20-32) whose construction succeeded
InitClient ==
    /\ webhook = FALSE
    /\ healthScript = <<"200">>
    /\ CLI_PAYLOAD = DefaultCliPayload
    /\ create_response_files \in BOOLEAN
    /\ files \in PriorFiles
    /\ clientCall = NoCall
    /\ supervisor = NoSupervisor
    /\ sink = NoRows
    /\ NotStarted(0)

\* api/__init__.py:82-303 a caller invokes one task operation on the client
ApiCall(op, args, answer) ==
    /\ clientCall = NoCall
    /\ clientCall' = ClientCall(op, args, answer, create_response_files)
    /\ files' = FilesAfter(files, clientCall')
    /\ UNCHANGED <<orchVars, create_response_files, supervisor, sink>>

NextClient ==
    /\ clientCall = NoCall
    /\ \E op \in TaskOps : \E args \in ArgsOf(op), answer \in Answers :
           ApiCall(op, args, answer)

SpecClient == InitClient /\ [][NextClient]_vars

\* ------------------------------------------------ the worker pool alone
\* a webhook request the gateway accepts
PoolPayload == [isNull |-> FALSE, keys |-> {"queries"}, queries |-> <<"barbershop">>]

\* the backend answers every task request with the task
PoolAnswers == {[status |-> 200,
                 body |-> [kind |-> "object", message |-> None, id |-> TaskId,
                           pages |-> 1]]}

\* the health requests of start_api_server when the backend is up at once
ReadyCalls ==
    <<[site |-> "ctor40", status |-> "True", requests |-> 1, waits |-> <<>>, first |-> 1],
      [site |-> "loop47", status |-> "True", requests |-> 1, waits |-> <<>>, first |-> 2]>>

\* serve.py:137 the gateway serving over n pool slots: the state after
\* start_api_server returned True on a backend that answers 200 at once
Serving(n) ==
    /\ healthCount = Len(ReadyCalls)
    /\ child = "running"
    /\ spawned = "ok"
    /\ API_SERVER_PROCESS = "proc"
    /\ pc = "serving"
    /\ attempt = 0
    /\ backoff_interval = InitialBackoff
    /\ sleeps = <<>>
    /\ pending = None
    /\ startResult = "True"
    /\ atexitHandlers = 0
    /\ stopLog = <<>>
    /\ tn = [t \in ThreadIds(n) |-> FreshRetryState]
    /\ mainCalls = ReadyCalls
    /\ task = [t \in ThreadIds(n) |-> IdleTask]
    /\ requests = <<>>

InitPool ==
    /\ webhook = TRUE
    /\ healthScript = <<"200">>
    /\ CLI_PAYLOAD = DefaultCliPayload
    /\ create_response_files = TRUE
    /\ files = NoFiles
    /\ clientCall = NoCall
    /\ supervisor = NoSupervisor
    /\ sink = NoRows
    /\ Serving(PoolRequests)

NextPool ==
    \/ start_task(PoolPayload)
    \/ \E j \in Jobs : JobStart(j)
    \/ \E j \in Jobs : RunCtor72(j)
    \/ \E j \in Jobs, answer \in PoolAnswers : TaskCall(j, answer)

SpecPool == InitPool /\ [][NextPool]_vars

\* the backend is up and rejects every task request with a message
RejectAnswers == {[status |-> 400,
                   body |-> [kind |-> "object", message |-> "bad input", id |-> None,
                             pages |-> 0]]}

\* serve.py:97-99 a step of the worker running unit j
WorkerStep(j) == RunCtor72(j) \/ \E answer \in RejectAnswers : TaskCall(j, answer)

NextPoolFair ==
    \/ start_task(PoolPayload)
    \/ \E j \in Jobs : JobStart(j)
    \/ \E j \in Jobs : WorkerStep(j)

\* the pool's threads keep running: an idle worker takes the oldest queued
\* item, and every backend call of a worker returns or fails
PoolFairness ==
    WF_vars(\E j \in 1..PoolRequests : JobStart(j) \/ WorkerStep(j))

SpecPoolFair == InitPool /\ [][NextPoolFair]_vars /\ PoolFairness

\* ------------------------------------- the process supervisor on its own
\* the two functions of serve.py called in any order by code that imports
\* the module; the handle is the index of the child it references, 0 = None
HandleOf(sup) == IF sup.handle = 0 THEN None ELSE "proc"
ChildOf(sup) == IF sup.handle = 0 THEN "none" ELSE sup.children[sup.handle]

InitSupervisor ==
    /\ webhook = FALSE
    /\ healthScript = <<"200">>
    /\ CLI_PAYLOAD = DefaultCliPayload
    /\ create_response_files = TRUE
    /\ files = NoFiles
    /\ clientCall = NoCall
    /\ supervisor = NoSupervisor
    /\ sink = NoRows
    /\ NotStarted(0)

\* serve.py:27-57 start_api_server: Popen, the handle assigned at line 34
\* whatever it held before; ready: what the readiness check then gives
start_api_server(spawnFails, ready) ==
    /\ Len(supervisor.log) < MaxSupervisorCalls
    /\ supervisor' =
         IF spawnFails
         THEN [supervisor EXCEPT !.log = Append(@, [op |-> "start", result |-> "False"])]
         ELSE [children |-> Append(supervisor.children, "running"),
               handle |-> Len(supervisor.children) + 1,
               log |-> Append(supervisor.log,
                              [op |-> "start",
                               result |-> IF ready THEN "True" ELSE "False"])]
    /\ UNCHANGED <<orchVars, create_response_files, files, clientCall, sink>>

\* serve.py:60-67 stop_api_server: terminate and wait on the handle, which
\* is left as it is
stop_api_server(childObeys) ==
    /\ Len(supervisor.log) < MaxSupervisorCalls
    /\ LET handle == HandleOf(supervisor)
           ch == ChildOf(supervisor)
           raised == WaitTimesOut(handle, ch, childObeys)
           after == ChildAfterStop(handle, ch, childObeys)
       IN supervisor' =
            [supervisor EXCEPT
               !.children = IF supervisor.handle = 0 THEN @
                            ELSE [@ EXCEPT ![supervisor.handle] = after],
               !.log = Append(@, [op |-> "stop",
                                  result |-> IF raised THEN "TimeoutExpired" ELSE None])]
    /\ UNCHANGED <<orchVars, create_response_files, files, clientCall, sink>>

\* a spawned backend process ends by itself
SupervisedChildExits(i) ==
    /\ i \in 1..Len(supervisor.children)
    /\ supervisor.children[i] = "running"
    /\ supervisor' = [supervisor EXCEPT !.children[i] = "exited"]
    /\ UNCHANGED <<orchVars, create_response_files, files, clientCall, sink>>

NextSupervisor ==
    \/ \E spawnFails \in BOOLEAN, ready \in BOOLEAN : start_api_server(spawnFails, ready)
    \/ \E childObeys \in BOOLEAN : stop_api_server(childObeys)
    \/ \E i \in 1..MaxSupervisorCalls : SupervisedChildExits(i)

SpecSupervisor == InitSupervisor /\ [][NextSupervisor]_vars

\* ------------------------------------------------- the script cli.py
\* cli.py:113-135 the steps inside the try block, in program order
CliSteps == <<"create_task", "get_task", "get_task_results", "insert_data",
              "download_task_results", "abort_task", "delete_task">>

\* cli.py:113-134 the task id a step leaves in `task`: task_list[0] or the
\* object after create_task, task['id'] of the object after get_task
CliIdAfter(op, body, id) ==
    CASE op = "create_task" -> body.id
      [] op = "get_task" -> IF body.kind = "object" THEN body.id ELSE None
      [] OTHER -> id

InitCli ==
    /\ webhook = FALSE
    /\ healthScript \in Scripts(CliScript)
    /\ CLI_PAYLOAD \in CliPayloads
    /\ create_response_files = TRUE
    /\ files = NoFiles
    /\ clientCall = NoCall
    /\ supervisor = NoSupervisor
    /\ sink = NoRows
    /\ NotStarted(0)

\* cli.py:57-85 load_config, the engine, Base.metadata.create_all(engine):
\* with the database down the script ends here with the driver's exception
CliStart(dbUp) ==
    /\ task[Main] = IdleTask
    /\ task' = [task EXCEPT ![Main] =
                   IF dbUp THEN [IdleTask EXCEPT !.pc = "ctor97"]
                   ELSE [IdleTask EXCEPT !.pc = "done", !.result = "OperationalError"]]
    /\ UNCHANGED <<envVars, files, spawned, healthCount, child, API_SERVER_PROCESS, pc,
                   attempt, backoff_interval, sleeps, pending, startResult,
                   atexitHandlers, stopLog, tn, mainCalls, requests>>

\* cli.py:97 api = Api(), outside the try block: one health request
CliCtor97 ==
    /\ task[Main].pc = "ctor97"
    /\ LET answer == ScriptAt(healthScript, healthCount + 1)
           rs == tn[Main]
           status == AttemptStatus(rs.attempt_number, answer)
           sent == task[Main].sent + 1
       IN /\ healthCount' = healthCount + 1
          /\ IF status = "retry"
             THEN /\ tn' = [tn EXCEPT ![Main] = NextRetryState(rs)]
                  /\ task' = [task EXCEPT ![Main].sent = sent]
                  /\ UNCHANGED mainCalls
             ELSE /\ tn' = [tn EXCEPT ![Main] = FreshRetryState]
                  /\ mainCalls' = Append(mainCalls, CallRecord(rs, status, "ctor97"))
                  /\ task' = [task EXCEPT
                                ![Main].sent = sent,
                                ![Main].pc = IF status = "True" THEN "cli" ELSE "done",
                                ![Main].result =
                                    CASE status = "True" -> None
                                      [] status = "False" -> "ApiException"
                                      [] OTHER -> status]
    /\ UNCHANGED <<envVars, files, spawned, child, API_SERVER_PROCESS, pc, attempt,
                   backoff_interval, sleeps, pending, startResult, atexitHandlers,
                   stopLog, requests>>

\* faulty variant: every step has its own handler, the script goes on after a failure
CliStep_continues(answer, insertFails) ==
    /\ task[Main].pc = "cli"
    /\ LET k == Len(task[Main].calls) + 1
           op == CliSteps[k]
           call == ClientCall(op, NoArgs, answer, create_response_files)
           id == IF call.exc = None THEN CliIdAfter(op, call.returned, task[Main].id)
                 ELSE None
           failed == IF op = "insert_data" THEN insertFails
                     ELSE call.exc # None \/ (op \in {"create_task", "get_task"} /\ id = None)
           last == k = Len(CliSteps)
       IN /\ task' = [task EXCEPT ![Main] =
                        [pc |-> IF last THEN "done" ELSE "cli",
                         sent |-> task[Main].sent + (IF op = "insert_data" THEN 0 ELSE call.requests),
                         result |-> IF failed THEN "error" ELSE IF last THEN "ok" ELSE None,
                         calls |-> Append(task[Main].calls, op),
                         id |-> IF op = "insert_data" \/ failed THEN task[Main].id ELSE id]]
          /\ IF op = "insert_data"
             THEN /\ sink' = IF insertFails THEN sink
                             ELSE Append(sink, [query |-> CLI_PAYLOAD.queries,
                                                results |-> clientCall.returned])
                  /\ UNCHANGED <<files, clientCall>>
             ELSE /\ files' = FilesAfter(files, call)
                  /\ clientCall' = call
                  /\ UNCHANGED sink
    /\ UNCHANGED <<healthScript, webhook, CLI_PAYLOAD, create_response_files, supervisor,
                   spawned, healthCount, child, API_SERVER_PROCESS, pc, attempt,
                   backoff_interval, sleeps, pending, startResult, atexitHandlers,
                   stopLog, tn, mainCalls, requests>>

\* cli.py:99-141 the next step of the try block; a step that raises ends
\* the block in one of the two handlers, which print the error
CliStep(answer, insertFails) ==
    /\ task[Main].pc = "cli"
    /\ LET k == Len(task[Main].calls) + 1
           op == CliSteps[k]
           call == ClientCall(op, NoArgs, answer, create_response_files)
           id == IF call.exc = None THEN CliIdAfter(op, call.returned, task[Main].id)
                 ELSE None
           failed == IF op = "insert_data" THEN insertFails
                     ELSE call.exc # None \/ (op \in {"create_task", "get_task"} /\ id = None)
           last == k = Len(CliSteps)
       IN /\ task' = [task EXCEPT ![Main] =
                        [pc |-> IF failed \/ last THEN "done" ELSE "cli",
                         sent |-> task[Main].sent + (IF op = "insert_data" THEN 0 ELSE call.requests),
                         result |-> IF failed THEN "error" ELSE IF last THEN "ok" ELSE None,
                         calls |-> Append(task[Main].calls, op),
                         id |-> IF op = "insert_data" \/ failed THEN task[Main].id ELSE id]]
          /\ IF op = "insert_data"
             THEN /\ sink' = IF insertFails THEN sink
                             ELSE Append(sink, [query |-> CLI_PAYLOAD.queries,
                                                results |-> clientCall.returned])
                  /\ UNCHANGED <<files, clientCall>>
             ELSE /\ files' = FilesAfter(files, call)
                  /\ clientCall' = call
                  /\ UNCHANGED sink
    /\ UNCHANGED <<healthScript, webhook, CLI_PAYLOAD, create_response_files, supervisor,
                   spawned, healthCount, child, API_SERVER_PROCESS, pc, attempt,
                   backoff_interval, sleeps, pending, startResult, atexitHandlers,
                   stopLog, tn, mainCalls, requests>>

NextCli ==
    \/ \E dbUp \in BOOLEAN : CliStart(dbUp)
    \/ CliCtor97
    \/ \E answer \in OrchAnswers, insertFails \in BOOLEAN : CliStep(answer, insertFails)

SpecCli == InitCli /\ [][NextCli]_vars

\* ================================================================ claims
NoQueries(p) == p.isNull \/ QueriesMissing(p)

Answer(n) == ScriptAt(healthScript, n)

\* the health requests first .. first+k-1 are refused k-1 times, then answered 200
RefusedThenOk(first, k) ==
    /\ \A i \in 0..(k - 2) : Answer(first + i) = "refused"
    /\ Answer(first + k - 1) = "200"

AllRefused(first, k) == \A i \in 0..(k - 1) : Answer(first + i) = "refused"

\* the main thread is inside an is_api_running call
MainProbing == pc \in {"ctor40", "loop47"} \/ (pc = "cli_task" /\ task[Main].pc = "ctor72")

\* index of the first health request of the main thread's running call
MainCallFirst == healthCount + 2 - tn[Main].attempt_number

CallIds == 1..Len(mainCalls)

\* C1 (as claimed): every webhook payload whose queries are missing or empty
\* is answered 400, puts no work item on the pool and causes no backend request.
C1_RejectsMissingQueries ==
    \A j \in 1..Len(requests) :
        NoQueries(requests[j].payload) =>
            /\ requests[j].status = 400
            /\ ~requests[j].submitted
            /\ task[j] = IdleTask

\* the health requests first, first+1, first+2 are answered 503, 503, 200
C2_Scenario(first) ==
    Answer(first) = "503" /\ Answer(first + 1) = "503" /\ Answer(first + 2) = "200"

\* C2 (as claimed): against a backend answering 503, 503, 200 the prober
\* succeeds after exactly 3 attempts, having waited min_wait and min_wait*2.
C2_SucceedsOnThirdAttempt ==
    \A c \in CallIds :
        C2_Scenario(mainCalls[c].first) =>
            /\ mainCalls[c].status = "True"
            /\ mainCalls[c].requests = 3
            /\ mainCalls[c].waits = <<WaitMin, WaitMin * 2>>

\* C2 (amended): against a backend answering 503, 503, 200 is_api_running
\* returns False after exactly 1 attempt and without waiting; a running call
\* never makes a second attempt in that scenario.
C2_FalseOnFirstAttempt ==
    /\ \A c \in CallIds :
        C2_Scenario(mainCalls[c].first) =>
            /\ mainCalls[c].status = "False"
            /\ mainCalls[c].requests = 1
            /\ mainCalls[c].waits = <<>>
    /\ (MainProbing /\ C2_Scenario(MainCallFirst)) => tn[Main].attempt_number = 1

C2_Witness ==
    \E c \in CallIds : C2_Scenario(mainCalls[c].first) /\ mainCalls[c].site = "ctor40"

\* C3: for every k in 1..5, against a backend refusing attempts 1..k-1 and
\* answering 200 on attempt k, is_api_running returns True after exactly k
\* health requests, and a running call never goes beyond attempt k.
C3_ReadyAtAttemptK ==
    \A k \in 1..StopAttempts :
        /\ \A c \in CallIds :
             RefusedThenOk(mainCalls[c].first, k) =>
                 mainCalls[c].status = "True" /\ mainCalls[c].requests = k
        /\ (MainProbing /\ RefusedThenOk(MainCallFirst, k)) =>
                 tn[Main].attempt_number <= k

C3_Witness ==
    /\ \E c \in CallIds : RefusedThenOk(mainCalls[c].first, StopAttempts)
    /\ \E c \in CallIds : RefusedThenOk(mainCalls[c].first, 1)

\* C4: against a backend that never accepts connections one is_api_running
\* call sends exactly 5 health requests and then fails; it never returns
\* True, and no call ever makes more than 5 attempts.
C4_ExactlyBudgetThenFails ==
    /\ \A c \in CallIds :
         AllRefused(mainCalls[c].first, StopAttempts) =>
             /\ mainCalls[c].requests = StopAttempts
             /\ mainCalls[c].status \notin {"True", "False"}
    /\ \A c \in CallIds :
         mainCalls[c].status \notin {"True", "False"} =>
             mainCalls[c].requests = StopAttempts
    /\ \A t \in Threads : tn[t].attempt_number <= StopAttempts
    /\ (\A i \in 1..Len(healthScript) : healthScript[i] = "refused") =>
         /\ healthCount <= StopAttempts
         /\ startResult # "True"

C4_Witness ==
    \E c \in CallIds :
        /\ AllRefused(mainCalls[c].first, StopAttempts)
        /\ mainCalls[c].requests = StopAttempts

\* C5 (as claimed): when every attempt of the budget hit a connection
\* failure, the exception leaving is_api_running is ApiException.
C5_ExhaustionRaisesApiException ==
    \A c \in CallIds :
        AllRefused(mainCalls[c].first, StopAttempts) =>
            mainCalls[c].status = "ApiException"

\* the schedule min(min_wait * 2^(i-1), max_wait), non-decreasing and capped
WaitsAsClaimed(waits) ==
    /\ \A i \in 1..Len(waits) :
         /\ waits[i] = Min2(WaitMin * Pow(2, i - 1), WaitMax)
         /\ waits[i] <= WaitMax
    /\ \A i \in 1..(Len(waits) - 1) : waits[i] <= waits[i + 1]

\* C6: the wait before retry i is min(min_wait * 2^(i-1), max_wait); the
\* waits of a call never decrease and never exceed max_wait.
C6_BackoffSchedule ==
    /\ \A c \in CallIds : WaitsAsClaimed(mainCalls[c].waits)
    /\ \A t \in Threads : WaitsAsClaimed(tn[t].waits)

C6_Witness ==
    \E c \in CallIds : Len(mainCalls[c].waits) = StopAttempts - 1

\* C7 (as claimed): no call of stop_api_server raises and none leaves a
\* running child, whatever the child does (twice in a row, never started,
\* child already gone, child not exiting within the wait timeout).
C7_StopNeverRaisesNorLeavesChild ==
    \A i \in 1..Len(stopLog) :
        ~stopLog[i].raised /\ stopLog[i].after # "running"

\* C8 (as claimed): once the child was spawned every exit of the
\* orchestrator has run stop_api_server, stop is registered with atexit by
\* the time the orchestrator is left, and the parent is never gone with the
\* child still running.
C8_ChildNeverOrphaned ==
    /\ (pc \in {"exit", "gone"} /\ spawned = "ok") =>
           /\ Len(stopLog) >= 1
           /\ atexitHandlers >= 1
    /\ pc = "gone" => child # "running"

\* C9: when Popen fails at OS level start_api_server returns False at once:
\* no Api client is built, no health request is sent, nothing sleeps and no
\* child handle is recorded.
C9_SpawnFailureReturnsFalse ==
    spawned = "OSError" =>
        /\ startResult = "False"
        /\ API_SERVER_PROCESS = None
        /\ child = "none"
        /\ healthCount = 0
        /\ mainCalls = <<>>
        /\ tn[Main] = FreshRetryState
        /\ sleeps = <<>>
        /\ pc \in {"finally", "exit", "gone"}

C9_Witness == spawned = "OSError" /\ pc = "gone"

\* the backend never answers 200 to a health request
NeverReady == \A i \in 1..Len(healthScript) : healthScript[i] # "200"

\* C10 (as claimed): after a successful spawn the readiness loop makes at
\* most 10 attempts, sleeps 2, 4, 8, ... seconds, one sleep after every
\* failed attempt, returns True as soon as an attempt reports ready, and
\* returns False without raising when the backend is never ready.
C10_OuterLoopReturnsFalse ==
    /\ attempt <= MAX_API_CHECK_RETRIES
    /\ Len(sleeps) = attempt
    /\ \A i \in 1..Len(sleeps) : sleeps[i] = InitialBackoff * Pow(2, i - 1)
    /\ pc = "dispatch" =>
           startResult = "True" /\ mainCalls[Len(mainCalls)].status = "True"
    /\ (spawned = "ok" /\ NeverReady /\ pc = "finally"
            /\ pending # "KeyboardInterrupt") =>
           startResult = "False" /\ pending = None

\* ------------------------------------------------- the client on its own
Called == clientCall.op # None

Is4xx(r) == r.status >= 400 /\ r.status < 500
Is5xx(r) == r.status >= 500 /\ r.status < 600

HasMessage(body) == body.kind = "object" /\ body.message \notin {None, ""}

\* C11 (as claimed): a 4xx answer is never a success; with a non-empty
\* message in its body the call fails with ApiException carrying that
\* message, and with any other body (no message, not a JSON object) it
\* fails with the generic HTTP error of the status.
C11_ClassifiesEvery4xx ==
    (Called /\ Is4xx(clientCall.answer)) =>
        /\ clientCall.exc # None
        /\ clientCall.returned = NoBody
        /\ IF HasMessage(clientCall.answer.body)
           THEN /\ clientCall.exc = "ApiException"
                /\ clientCall.message = clientCall.answer.body.message
           ELSE clientCall.exc = HttpError(clientCall.answer.status)

\* C12: a 5xx answer makes the call fail with the HTTP error of the status
\* whatever its body is; the body is not parsed, nothing is returned and no
\* response file is written.
C12_ServerErrorWhateverBody ==
    (Called /\ Is5xx(clientCall.answer)) =>
        /\ clientCall.exc = HttpError(clientCall.answer.status)
        /\ clientCall.exc = "HTTPError"
        /\ clientCall.message = None
        /\ ~clientCall.parsed
        /\ clientCall.returned = NoBody
        /\ clientCall.write = NoWrite
        /\ files \in PriorFiles

C12_Witness ==
    /\ Called /\ Is5xx(clientCall.answer) /\ create_response_files
    /\ HasMessage(clientCall.answer.body)
    /\ clientCall.exc = "HTTPError"

\* C13: a call of any task operation sends exactly one request, whether the
\* backend answers 2xx, 4xx, 5xx or refuses the connection.
C13_OneRequestPerCall ==
    Called =>
        /\ clientCall.op \in TaskOps
        /\ clientCall.requests = 1

C13_Witness ==
    /\ clientCall.op = "delete_tasks"
    /\ clientCall.answer = Refused
    /\ clientCall.exc = "ConnectionError"
    /\ clientCall.requests = 1

\* the optional arguments the caller passed to get_task_results
Supplied(args) == {f \in ResultFields : args[f] # Unset}

\* C19 (as claimed): the body of the results request holds each of filters,
\* sort, view, page, per_page exactly when the caller passed it, with the
\* value passed: no argument gives an empty body, page 0 and an empty
\* filter object are sent as they are.
C19_BodyHoldsExactlySupplied ==
    clientCall.op = "get_task_results" =>
        /\ DOMAIN clientCall.payload = Supplied(clientCall.args)
        /\ \A f \in DOMAIN clientCall.payload :
               clientCall.payload[f] = clientCall.args[f]

\* --------------------------------------------- the gateway and its units
Accepted(i) == requests[i].submitted

\* the acknowledgement of serve.py:114
AckStatus == 200

\* C14: an accepted request puts exactly one unit of work on the pool and
\* is answered with the acknowledgement at once: when the answer is
\* produced the unit is queued, not started; no other unit is touched; and
\* the answer is never changed by what the unit does later.
C14_AckWithoutWaiting ==
    [][/\ Len(requests') >= Len(requests)
       /\ Len(requests') <= Len(requests) + 1
       /\ \A i \in 1..Len(requests) : requests'[i] = requests[i]
       /\ Len(requests') = Len(requests) + 1 =>
              LET j == Len(requests')
              IN IF requests'[j].submitted
                 THEN /\ requests'[j].status = AckStatus
                      /\ task[j] = IdleTask
                      /\ task'[j] = [IdleTask EXCEPT !.pc = "queued"]
                      /\ \A i \in Threads \ {j} : task'[i] = task[i]
                 ELSE task' = task]_vars

C14_Witness ==
    \E j \in Jobs : /\ j <= Len(requests)
                    /\ Accepted(j)
                    /\ requests[j].status = AckStatus
                    /\ task[j].pc = "done"
                    /\ task[j].result = "error"

RunCliTaskCalls == <<"create_task", "get_task", "get_task_results">>

IsPrefix(s, t) == Len(s) <= Len(t) /\ \A i \in 1..Len(s) : s[i] = t[i]

\* C16 (as claimed): a unit calls create_task, get_task, get_task_results
\* in this order, each at most once and only after the previous one
\* succeeded; its outcome is {task, results} exactly when all three
\* succeeded and {error} otherwise.
C16_OrderedCallsAndOutcome ==
    \A j \in Jobs :
        /\ IsPrefix(task[j].calls, RunCliTaskCalls)
        /\ task[j].pc = "done" =>
               /\ task[j].result \in {"ok", "error"}
               /\ task[j].result = "ok" => task[j].calls = RunCliTaskCalls
               /\ task[j].result = "ok" => task[j].id = TaskId

\* C17 (as claimed): whatever fails inside a unit (the construction of the
\* client, one of the three calls) the unit ends with the {error} outcome:
\* no exception leaves run_cli_task in a worker.
C17_FailureBecomesErrorOutcome ==
    \A j \in Jobs :
        (task[j].pc = "done" /\ task[j].calls # RunCliTaskCalls) =>
            task[j].result = "error"

\* the steps of the in-process run
RunSteps == <<"create_task", "get_task", "get_task_results", "insert_data",
              "download_task_results", "abort_task", "delete_task">>

\* C18 (as claimed): without the webhook the run makes the seven steps
\* create, fetch, results, insert, download, abort, delete, and a failed
\* step leaves the run with a failure the invoker observes.
C18_RunSurfacesFailures ==
    (~webhook /\ pc = "finally" /\ task[Main].pc = "done"
        /\ pending # "KeyboardInterrupt") =>
        /\ task[Main].result = "ok" => task[Main].calls = RunSteps
        /\ task[Main].result # "ok" => pending # None

InFlight(j) == task[j].pc = "queued" \/ Executing(j)

\* C20 (as claimed): the gateway or the single task runs only after
\* start_api_server returned True, and no call of stop_api_server happens
\* while a unit of work is queued or executing.
C20_SessionBracketed ==
    [][/\ pc' \in {"serving", "cli_task"} => startResult' = "True"
       /\ stopLog' # stopLog => \A j \in Jobs : ~InFlight(j)]_vars

\* -------------------------------------------------------- the worker pool
NowExecuting == {j \in Jobs : Executing(j)}

\* C15: at most MaxWorkers units execute at any time, and a queued unit
\* starts only in a state where fewer than MaxWorkers units are executing,
\* so one accepted while MaxWorkers execute waits until one of them ended.
C15_AtMostFiveExecuting ==
    [][/\ Cardinality({j \in Jobs : task'[j].pc \in {"ctor72", "create", "get", "results"}})
              <= MaxWorkers
       /\ \A j \in Jobs :
              (task[j].pc = "queued" /\ task'[j].pc # "queued") =>
                  /\ Cardinality(NowExecuting) < MaxWorkers
                  /\ task'[j].pc = "ctor72"]_vars

C15_Witness ==
    /\ Cardinality(NowExecuting) = MaxWorkers
    /\ \E j \in Jobs : task[j].pc = "queued"
    /\ \E j \in Jobs : task[j].pc = "get"

\* ------------------------------------------------ construction of the client
CtorSites == {"ctor40", "ctor72"}

\* the answer to the last health request of a completed call
LastAnswer(c) == Answer(mainCalls[c].first + mainCalls[c].requests - 1)

\* exceptions with which Api() ends when its readiness check fails
CtorFailures == {"ApiException", RetryExhausted}

\* C21: Api() returns a client only when its readiness check was answered
\* 200; after a non-200 answer or a refused connection through the whole
\* retry budget the constructor raises, and the thread makes no further
\* call through that client: no readiness probe, no task operation.
C21_NoClientUnlessReady ==
    /\ \A c \in CallIds :
           mainCalls[c].site \in CtorSites =>
               IF LastAnswer(c) = "200"
               THEN mainCalls[c].status = "True"
               ELSE /\ mainCalls[c].status \in {"False", RetryExhausted}
                    /\ c = Len(mainCalls)
                    /\ ~MainProbing
                    /\ task[Main].calls = <<>>
                    /\ task[Main].pc \in {"idle", "done"}
    /\ \A t \in Threads :
           task[t].result \in CtorFailures =>
               task[t].calls = <<>> /\ task[t].pc = "done"
    /\ \A t \in Threads :
           (task[t].calls # <<>> \/ task[t].pc \in {"create", "get", "results"}) =>
               task[t].result \notin CtorFailures

C21_Witness ==
    /\ \E c \in CallIds : /\ mainCalls[c].site = "ctor72"
                          /\ mainCalls[c].status = "False"
    /\ \E c \in CallIds : /\ mainCalls[c].site = "ctor40"
                          /\ mainCalls[c].status = "True"
    /\ task[Main].result = "ApiException"
    /\ pc = "gone"

\* ------------------------------------------------ the process supervisor
\* C22 (as claimed): after any sequence of start_api_server and
\* stop_api_server calls every spawned child that is still running is the
\* one the handle references.
C22_RunningChildIsReferenced ==
    \A i \in 1..Len(supervisor.children) :
        supervisor.children[i] = "running" => supervisor.handle = i

\* ------------------------------------------------- the diagnostic files
\* C23: a call changes the response files only when create_response_files
\* is set and the call returned: then exactly the file of the operation
\* holds the body returned and every other file is as before.  With the
\* flag off, or when the call fails (4xx, 5xx, refused, unparsable), the
\* files are as they were.
C23_FileOnlyOnSuccessWithFlag ==
    [][LET call == clientCall'
       IN /\ ~create_response_files => files' = files
          /\ call.exc # None => files' = files /\ call.write = NoWrite
          /\ (Is4xx(call.answer) \/ Is5xx(call.answer)) => files' = files
          /\ (create_response_files /\ call.exc = None) =>
                 /\ call.write # NoWrite
                 /\ call.write[2] = call.returned
                 /\ DOMAIN files' = DOMAIN files \cup {call.write[1]}
                 /\ files'[call.write[1]] = call.returned
                 /\ \A f \in DOMAIN files \ {call.write[1]} : files'[f] = files[f]]_vars

C23_Witness ==
    /\ clientCall.op = "abort_task"
    /\ clientCall.exc = None
    /\ create_response_files
    /\ Cardinality(DOMAIN files) = 2

\* ------------------------------------------------------ the script cli.py
CliCalls == task[Main].calls

\* C24: the script makes its steps in the order create_task, get_task,
\* get_task_results, insert_data, download_task_results, abort_task,
\* delete_task; a step is made only while no earlier step has failed; a
\* row is in the sink only after get_task_results was made and returned;
\* once a step has failed nothing more is called, written or inserted.
C24_ScriptIsFailStop ==
    [][/\ IsPrefix(task'[Main].calls, RunSteps)
       /\ Len(task'[Main].calls) <= Len(CliCalls) + 1
       /\ Len(task'[Main].calls) > Len(CliCalls) =>
              /\ task[Main].result = None
              /\ IsPrefix(CliCalls, task'[Main].calls)
       /\ task[Main].result # None =>
              /\ task'[Main] = task[Main]
              /\ sink' = sink
              /\ files' = files
       /\ task'[Main].result = "error" =>
              /\ task'[Main].pc = "done"
              /\ task'[Main].calls # <<>>
       /\ sink' # NoRows =>
              /\ Len(sink') = 1
              /\ Len(task'[Main].calls) >= 4
       /\ sink' # sink =>
              /\ clientCall.op = "get_task_results"
              /\ clientCall.exc = None
              /\ sink'[1].results = clientCall.returned
       /\ task'[Main].result = "ok" => task'[Main].calls = RunSteps /\ Len(sink') = 1]_vars

C24_Witness ==
    /\ task[Main].result = "error"
    /\ task[Main].calls = SubSeq(RunSteps, 1, 5)
    /\ Len(sink) = 1
    /\ task[Main].id = TaskId

\* ------------------------------------------------------------- progress
\* C25: with workers that keep running and backend calls that return or
\* fail, every accepted request is taken from the queue and run to an
\* outcome, also when more requests than workers were accepted before it.
C25_AcceptedIsExecuted ==
    \A j \in 1..PoolRequests : (task[j].pc = "queued") ~> (task[j].pc = "done")

C25_Witness ==
    \E j \in Jobs : /\ j > MaxWorkers
                    /\ j <= Len(requests)
                    /\ Accepted(j)
                    /\ task[j].pc = "done"
                    /\ task[j].result = "error"
                    /\ task[j].calls = <<"create_task">>

====
